---- MODULE Spec2Model ----
(***************************************************************************)
(* Model of sogni-gen.mjs: the option compiler (top-level script, lines    *)
(* 211-883) and the job orchestration of main() / runMultiAngleFlow() /    *)
(* runImageEditProjectWithEvents() (lines 1032-1749).                      *)
(*                                                                         *)
(* Two specifications share the module:                                    *)
(*   SpecCompile - argv parsing followed by the validation pipeline;       *)
(*   Spec        - one run of main() on compiled options, with the client  *)
(*                 event stream, timers and the process exit.              *)
(***************************************************************************)
EXTENDS Integers, Sequences, FiniteSets, TLC

(***************************************************************************)
(* Bounds.                                                                 *)
(***************************************************************************)
MaxArgs == 4

MaxCount == 2

MaxSweep == 3

MaxForeign == 1

(***************************************************************************)
(* JavaScript values.  null/undefined is Null for strings and 0 for the    *)
(* numeric options (the code tests them by truthiness).                    *)
(***************************************************************************)
Null == "null"

Truthy(s) == s \notin {Null, ""}

\* a numeric option that is null (angleStrength accepts 0 as a value)
NoNumber == 0 - 1

Or(a, b) == IF Truthy(a) THEN a ELSE b

(***************************************************************************)
(* Model identifiers and the substrings the code searches them for.        *)
(***************************************************************************)
VIDEO_WORKFLOW_DEFAULT_MODELS ==
  [w \in {"t2v", "i2v", "s2v", "animate-move", "animate-replace"} |->
     CASE w = "t2v" -> "wan_v2.2-14b-fp8_t2v_lightx2v"
       [] w = "i2v" -> "wan_v2.2-14b-fp8_i2v_lightx2v"
       [] w = "s2v" -> "wan_v2.2-14b-fp8_s2v_lightx2v"
       [] w = "animate-move" -> "wan_v2.2-14b-fp8_animate-move_lightx2v"
       [] w = "animate-replace" -> "wan_v2.2-14b-fp8_animate-replace_lightx2v"]

ModelSubstrings(m) ==
  CASE m = "wan_v2.2-14b-fp8_t2v_lightx2v" -> {"_t2v"}
    [] m = "wan_v2.2-14b-fp8_i2v_lightx2v" -> {"_i2v"}
    [] m = "wan_v2.2-14b-fp8_s2v_lightx2v" -> {"_s2v"}
    [] m = "wan_v2.2-14b-fp8_animate-move_lightx2v" -> {"animate-move"}
    [] m = "wan_v2.2-14b-fp8_animate-replace_lightx2v" -> {"animate-replace"}
    [] m = "qwen_image_edit_2511_fp8_lightning" -> {"qwen_image_edit_2511", "lightning"}
    [] m = "qwen_image_edit_2511_fp8" -> {"qwen_image_edit_2511"}
    [] OTHER -> {}

Includes(m, sub) == sub \in ModelSubstrings(m)

ToLowerCase(v) ==
  CASE v = "I2V" -> "i2v"
    [] v = "Image-To-Video" -> "image-to-video"
    [] OTHER -> v

normalizeVideoWorkflow(value) ==
  IF ~Truthy(value) THEN Null
  ELSE LET normalized == ToLowerCase(value) IN
       CASE normalized \in {"t2v", "text-to-video"} -> "t2v"
         [] normalized \in {"i2v", "image-to-video"} -> "i2v"
         [] normalized \in {"s2v", "sound-to-video"} -> "s2v"
         [] normalized \in {"animate-move", "animate_move"} -> "animate-move"
         [] normalized \in {"animate-replace", "animate_replace"} -> "animate-replace"
         [] OTHER -> Null

inferVideoWorkflowFromModel(modelId) ==
  IF ~Truthy(modelId) THEN Null
  ELSE CASE Includes(modelId, "animate-move") -> "animate-move"
         [] Includes(modelId, "animate-replace") -> "animate-replace"
         [] Includes(modelId, "_t2v") \/ Includes(modelId, "-t2v") -> "t2v"
         [] Includes(modelId, "_i2v") \/ Includes(modelId, "-i2v") -> "i2v"
         [] Includes(modelId, "_s2v") \/ Includes(modelId, "-s2v") -> "s2v"
         [] OTHER -> Null

inferVideoWorkflowFromAssets(opts) ==
  CASE Truthy(opts.refVideo) -> "animate-move"
    [] Truthy(opts.refAudio) -> "s2v"
    [] Truthy(opts.refImage) \/ Truthy(opts.refImageEnd) -> "i2v"
    [] OTHER -> Null

workflowRequiresImage(workflow) ==
  workflow \in {"i2v", "s2v", "animate-move", "animate-replace"}

\* A seed is the four bytes readUInt32BE(0) reads, most significant first: the
\* 32-bit unsigned integers.  NoSeed stands for a seed that is null.
NoSeed == <<>>

Seeds == [1..4 -> 0..255]

\* the seed the command lines pass to --seed
GivenSeed == <<0, 0, 0, 42>>

\* the seed recorded in last-render.json, if the file is there and has one
LastRenderSeed == <<0, 0, 0, 7>>

\* values generateRandomSeed (lines 66-68) may return
RandomSeeds == {<<0, 0, 0, 0>>, <<18, 52, 86, 120>>, <<255, 255, 255, 255>>}

\* what the seed resolution reads from outside the options: the seed of the
\* last render (NoSeed if there is none) and the bytes randomBytes(4) returns
SeedEnvs == [lastRender : {NoSeed, LastRenderSeed}, random : RandomSeeds]

(***************************************************************************)
(* The options object and cliSet as the script initialises them.           *)
(***************************************************************************)
DefaultOptions ==
  [prompt |-> Null, model |-> Null, count |-> 1, json |-> FALSE,
   steps |-> 0, sampler |-> Null, scheduler |-> Null,
   loras |-> <<>>, loraStrengths |-> <<>>,
   multiAngle |-> FALSE, angles360 |-> FALSE, angleStrength |-> NoNumber,
   video |-> FALSE, videoWorkflow |-> Null, frames |-> 0,
   autoResizeVideoAssets |-> Null, estimateVideoCost |-> FALSE,
   angles360Video |-> FALSE,
   refImage |-> Null, refImageEnd |-> Null, refAudio |-> Null, refVideo |-> Null,
   contextImages |-> <<>>, lastImagePath |-> Null, azimuth |-> "front",
   guidance |-> NoNumber, width |-> 512, height |-> 512,
   seed |-> NoSeed, seedStrategy |-> Null, lastSeed |-> FALSE, output |-> Null,
   duration |-> 5]

DefaultCliSet ==
  [workflow |-> FALSE, steps |-> FALSE, count |-> FALSE, guidance |-> FALSE,
   width |-> FALSE, height |-> FALSE, seed |-> FALSE, seedStrategy |-> FALSE]

\* openclawConfig: the plugin configuration, as far as the modelled code reads it
\* config.modelDefaults: the models it has an entry for and the entry's values
\* (guidance in tenths; steps 0 and guidance NoNumber stand for a missing field)
NoModelDefaults == [models |-> {}, steps |-> 0, guidance |-> NoNumber]

NoConfig ==
  [defaultVideoWorkflow |-> Null, modelDefaults |-> NoModelDefaults, seedStrategy |-> Null]

\* lines 119-124
getModelDefaults(modelId, config) ==
  IF ~Truthy(modelId) \/ modelId \notin config.modelDefaults.models
  THEN [steps |-> 0, guidance |-> NoNumber]
  ELSE [steps |-> config.modelDefaults.steps, guidance |-> config.modelDefaults.guidance]

\* a ?? b on step counts and on guidance values
StepsOr(a, b) == IF a # 0 THEN a ELSE b

GuidanceOr(a, b) == IF a # NoNumber THEN a ELSE b

(***************************************************************************)
(* argv.  One element of Args is one flag with its value, as the parse     *)
(* loop consumes it.                                                       *)
(***************************************************************************)
WorkflowArgs ==
  {"", "t2v", "i2v", "s2v", "animate-move", "animate-replace", "Image-To-Video", "foo"}

ModelArgs ==
  {"wan_v2.2-14b-fp8_t2v_lightx2v", "wan_v2.2-14b-fp8_s2v_lightx2v",
   "qwen_image_edit_2511_fp8", "z_image_turbo_bf16"}

CountArgs == {ToString(n) : n \in 2..MaxCount}

\* --width / --height values
SizeArgs == {"500", "512", "768"}

\* parseInt on the decimal strings of CountArgs, SizeArgs and --duration
ParseInt(str) ==
  CHOOSE n \in 0..(MaxCount + 1) \cup {10, 500, 512, 768} : ToString(n) = str

ConfigWorkflows == {Null, "t2v", "i2v", "image-to-video"}

Args ==
  [flag : {"--video", "--ref", "--ref-end", "--ref-audio", "--ref-video", "--lora",
           "--lora-strength", "--sampler", "--scheduler", "--auto-resize-assets",
           "--no-auto-resize-assets", "--frames", "--estimate-video-cost",
           "--last-image", "--multi-angle", "--angles-360", "--angles-360-video",
           "--context", "--steps", "--json", "prompt"},
   val : {Null}]
  \cup [flag : {"--count"}, val : CountArgs]
  \cup [flag : {"--workflow"}, val : WorkflowArgs]
  \cup [flag : {"--model"}, val : ModelArgs]

\* one iteration of the argument loop
ParseArg(o, arg) ==
  CASE arg.flag = "--video" -> [o EXCEPT !.video = TRUE]
    [] arg.flag = "--workflow" -> [o EXCEPT !.videoWorkflow = arg.val]
    [] arg.flag = "--model" -> [o EXCEPT !.model = arg.val]
    [] arg.flag = "--ref" -> [o EXCEPT !.refImage = "ref.jpg"]
    [] arg.flag = "--ref-end" -> [o EXCEPT !.refImageEnd = "end.jpg"]
    [] arg.flag = "--ref-audio" -> [o EXCEPT !.refAudio = "speech.m4a"]
    [] arg.flag = "--ref-video" -> [o EXCEPT !.refVideo = "motion.mp4"]
    [] arg.flag = "--lora" -> [o EXCEPT !.loras = Append(@, "my_lora")]
    [] arg.flag = "--lora-strength" -> [o EXCEPT !.loraStrengths = Append(@, 8)]
    [] arg.flag = "--sampler" -> [o EXCEPT !.sampler = "dpmpp"]
    [] arg.flag = "--scheduler" -> [o EXCEPT !.scheduler = "karras"]
    [] arg.flag = "--auto-resize-assets" -> [o EXCEPT !.autoResizeVideoAssets = "true"]
    [] arg.flag = "--no-auto-resize-assets" -> [o EXCEPT !.autoResizeVideoAssets = "false"]
    [] arg.flag = "--frames" -> [o EXCEPT !.frames = 40]
    [] arg.flag = "--output" -> [o EXCEPT !.output = "out.png"]
    [] arg.flag = "--duration" -> [o EXCEPT !.duration = ParseInt(arg.val)]
    [] arg.flag = "--estimate-video-cost" -> [o EXCEPT !.estimateVideoCost = TRUE]
    [] arg.flag = "--last-image" -> [o EXCEPT !.lastImagePath = "last.png"]
    [] arg.flag = "--multi-angle" -> [o EXCEPT !.multiAngle = TRUE]
    [] arg.flag = "--angles-360" -> [o EXCEPT !.angles360 = TRUE, !.multiAngle = TRUE]
    [] arg.flag = "--angles-360-video" -> [o EXCEPT !.angles360Video = TRUE]
    [] arg.flag = "--context" -> [o EXCEPT !.contextImages = Append(@, Or(arg.val, "subject.jpg"))]
    [] arg.flag = "--steps" -> [o EXCEPT !.steps = 20]
    [] arg.flag = "--guidance" -> [o EXCEPT !.guidance = 25]
    [] arg.flag = "--width" -> [o EXCEPT !.width = ParseInt(arg.val)]
    [] arg.flag = "--height" -> [o EXCEPT !.height = ParseInt(arg.val)]
    [] arg.flag = "--seed" -> [o EXCEPT !.seed = GivenSeed]
    [] arg.flag = "--seed-strategy" -> [o EXCEPT !.seedStrategy = arg.val]
    [] arg.flag = "--last-seed" -> [o EXCEPT !.lastSeed = TRUE]
    [] arg.flag = "--count" -> [o EXCEPT !.count = ParseInt(arg.val)]
    [] arg.flag = "--json" -> [o EXCEPT !.json = TRUE]
    [] arg.flag = "prompt" -> IF ~Truthy(o.prompt) THEN [o EXCEPT !.prompt = "a cat"] ELSE o

ParseCliSet(cs, arg) ==
  CASE arg.flag = "--workflow" -> [cs EXCEPT !.workflow = TRUE]
    [] arg.flag = "--steps" -> [cs EXCEPT !.steps = TRUE]
    [] arg.flag = "--count" -> [cs EXCEPT !.count = TRUE]
    [] arg.flag = "--guidance" -> [cs EXCEPT !.guidance = TRUE]
    [] arg.flag = "--width" -> [cs EXCEPT !.width = TRUE]
    [] arg.flag = "--height" -> [cs EXCEPT !.height = TRUE]
    [] arg.flag = "--seed" -> [cs EXCEPT !.seed = TRUE]
    [] arg.flag = "--seed-strategy" -> [cs EXCEPT !.seedStrategy = TRUE]
    [] OTHER -> cs

(***************************************************************************)
(* The validation pipeline.  Every stage maps the options to              *)
(* [o |-> options', err |-> message]; err = "" when the script goes on,    *)
(* otherwise the message it prints before process.exit(1).                 *)
(***************************************************************************)
Ok(o) == [o |-> o, err |-> ""]

Fail(o, msg) == [o |-> o, err |-> msg]

\* lines 58-64
normalizeSeedStrategy(value) ==
  IF ~Truthy(value) THEN Null
  ELSE IF ToLowerCase(value) = "random" THEN "random"
  ELSE IF ToLowerCase(value) \in {"prompt-hash", "prompt_hash"} THEN "prompt-hash"
  ELSE Null

\* lines 540-577
ApplyConfig(o, cs, cfg) ==
  LET o1 == IF ~cs.seedStrategy /\ Truthy(cfg.seedStrategy)
            THEN [o EXCEPT !.seedStrategy = cfg.seedStrategy]
            ELSE o
  IN IF o1.video /\ ~cs.workflow /\ Truthy(cfg.defaultVideoWorkflow)
     THEN Ok([o1 EXCEPT !.videoWorkflow = cfg.defaultVideoWorkflow])
     ELSE Ok(o1)

\* lines 588-595
SeedStrategyCheck(o) ==
  IF ~Truthy(o.seedStrategy) THEN Ok(o)
  ELSE IF ~Truthy(normalizeSeedStrategy(o.seedStrategy))
  THEN Fail(o, "Error: --seed-strategy must be \"random\" or \"prompt-hash\".")
  ELSE Ok([o EXCEPT !.seedStrategy = normalizeSeedStrategy(@)])

IndexOf(seq, x) ==
  IF \E i \in 1..Len(seq) : seq[i] = x
  THEN CHOOSE i \in 1..Len(seq) : seq[i] = x /\ \A j \in 1..(i - 1) : seq[j] # x
  ELSE 0

\* lines 607-693
MultiAngleSetup(o, cs) ==
  IF ~o.multiAngle THEN Ok(o)
  ELSE IF o.video THEN Fail(o, "Error: --multi-angle is only for image editing.")
  ELSE IF o.angles360Video /\ ~o.angles360
       THEN Fail(o, "Error: --angles-360-video requires --angles-360.")
  ELSE IF o.angles360Video /\ o.count # 1
       THEN Fail(o, "Error: --angles-360-video requires --count 1.")
  ELSE
  LET o1 == IF Truthy(o.lastImagePath) /\ Len(o.contextImages) = 0
            THEN [o EXCEPT !.contextImages = Append(@, o.lastImagePath),
                           !.lastImagePath = Null]
            ELSE o
  IN
  IF Len(o1.contextImages) = 0
  THEN Fail(o1, "Error: --multi-angle requires a reference image (--context or --last-image).")
  ELSE IF Truthy(o1.model) /\ ~Includes(o1.model, "qwen_image_edit_2511")
  THEN Fail(o1, "Error: --multi-angle requires a Qwen Image Edit 2511 model.")
  ELSE
  LET o2 == [o1 EXCEPT !.model = Or(@, "qwen_image_edit_2511_fp8_lightning"),
                       !.sampler = Or(@, "euler"),
                       !.scheduler = Or(@, "simple")]
  IN
  IF Len(o2.loras) = 0 /\ Len(o2.loraStrengths) > 1
  THEN Fail(o2, "Error: --lora-strengths requires explicit --loras when using --multi-angle.")
  ELSE
  LET o3 == IF Len(o2.loras) = 0 /\ Len(o2.loraStrengths) > 0
            THEN [o2 EXCEPT !.angleStrength =
                               IF @ = NoNumber THEN o2.loraStrengths[1] ELSE @,
                            !.loraStrengths = <<>>]
            ELSE o2
      o3g == IF ~cs.guidance /\ o3.guidance = NoNumber
             THEN [o3 EXCEPT !.guidance = IF Includes(o3.model, "lightning") THEN 10 ELSE 40]
             ELSE o3
      o4 == [o3g EXCEPT !.angleStrength = IF @ = NoNumber THEN 9 ELSE @]
      multiAngleStrength == o4.angleStrength
      o5 == IF IndexOf(o4.loras, "multiple_angles") = 0
            THEN [o4 EXCEPT !.loras = Append(@, "multiple_angles"),
                            !.loraStrengths =
                               IF Len(@) > 0 THEN Append(@, multiAngleStrength) ELSE @]
            ELSE o4
      o6 == IF Len(o5.loraStrengths) = 0 /\ Len(o5.loras) > 0
            THEN [o5 EXCEPT !.loraStrengths =
                    [i \in 1..Len(o5.loras) |->
                       IF o5.loras[i] = "multiple_angles" THEN multiAngleStrength ELSE 10]]
            ELSE o5
  IN Ok(o6)

\* lines 709-743 without the check of lines 725-728
OptionExclusivity_WithoutSamplerCheck(o) ==
  IF Len(o.loraStrengths) > 0 /\ Len(o.loras) = 0
  THEN Fail(o, "Error: --lora-strength requires at least one --lora.")
  ELSE IF Len(o.loraStrengths) > 0 /\ Len(o.loras) > 0
          /\ Len(o.loraStrengths) # Len(o.loras)
  THEN Fail(o, "Error: --lora-strengths count must match --loras count.")
  ELSE IF o.video /\ Len(o.loras) > 0
  THEN Fail(o, "Error: --lora options are image-only.")
  ELSE IF ~o.video /\ o.autoResizeVideoAssets # Null
  THEN Fail(o, "Error: --auto-resize-assets is only valid with --video.")
  ELSE IF o.estimateVideoCost /\ ~o.video
  THEN Fail(o, "Error: --estimate-video-cost requires --video.")
  ELSE IF o.angles360Video /\ ~o.angles360
  THEN Fail(o, "Error: --angles-360-video requires --angles-360.")
  ELSE Ok(o)

\* lines 709-743
OptionExclusivity(o) ==
  IF Len(o.loraStrengths) > 0 /\ Len(o.loras) = 0
  THEN Fail(o, "Error: --lora-strength requires at least one --lora.")
  ELSE IF Len(o.loraStrengths) > 0 /\ Len(o.loras) > 0
          /\ Len(o.loraStrengths) # Len(o.loras)
  THEN Fail(o, "Error: --lora-strengths count must match --loras count.")
  ELSE IF o.video /\ Len(o.loras) > 0
  THEN Fail(o, "Error: --lora options are image-only.")
  ELSE IF o.video /\ (Truthy(o.sampler) \/ Truthy(o.scheduler))
  THEN Fail(o, "Error: --sampler/--scheduler are image-only options.")
  ELSE IF ~o.video /\ o.autoResizeVideoAssets # Null
  THEN Fail(o, "Error: --auto-resize-assets is only valid with --video.")
  ELSE IF o.estimateVideoCost /\ ~o.video
  THEN Fail(o, "Error: --estimate-video-cost requires --video.")
  ELSE IF o.angles360Video /\ ~o.angles360
  THEN Fail(o, "Error: --angles-360-video requires --angles-360.")
  ELSE Ok(o)

\* lines 746-764
VideoWorkflowSelection(o, cfg) ==
  IF ~o.video THEN Ok(o)
  ELSE
  LET normalized == normalizeVideoWorkflow(o.videoWorkflow) IN
  IF Truthy(o.videoWorkflow) /\ ~Truthy(normalized)
  THEN Fail(o, "Error: Unknown workflow. Use t2v|i2v|s2v|animate-move|animate-replace.")
  ELSE
  LET o1 == IF Truthy(o.videoWorkflow) THEN [o EXCEPT !.videoWorkflow = normalized] ELSE o
      workflowFromModel == inferVideoWorkflowFromModel(o1.model)
  IN
  IF Truthy(o1.videoWorkflow) /\ Truthy(workflowFromModel)
     /\ o1.videoWorkflow # workflowFromModel
  THEN Fail(o1, "Error: Workflow does not match model.")
  ELSE IF ~Truthy(o1.videoWorkflow)
  THEN Ok([o1 EXCEPT !.videoWorkflow =
             Or(workflowFromModel,
                Or(inferVideoWorkflowFromAssets(o1),
                   Or(cfg.defaultVideoWorkflow, "t2v")))])
  ELSE Ok(o1)

\* lines 767-778
ResolveLastImage(o) ==
  IF ~Truthy(o.lastImagePath) THEN Ok(o)
  ELSE IF o.video
       THEN IF workflowRequiresImage(o.videoWorkflow)
            THEN Ok([o EXCEPT !.refImage = Or(@, o.lastImagePath), !.lastImagePath = Null])
            ELSE Ok([o EXCEPT !.lastImagePath = Null])
       ELSE Ok([o EXCEPT !.contextImages = Append(@, o.lastImagePath),
                         !.lastImagePath = Null])

\* lines 781-796 (no configured model overrides)
ModelDefaults(o) ==
  IF o.video
  THEN Ok([o EXCEPT !.model =
             Or(@, IF o.videoWorkflow \in DOMAIN VIDEO_WORKFLOW_DEFAULT_MODELS
                   THEN VIDEO_WORKFLOW_DEFAULT_MODELS[o.videoWorkflow]
                   ELSE "wan_v2.2-14b-fp8_i2v_lightx2v")])
  ELSE IF Len(o.contextImages) > 0
  THEN Ok([o EXCEPT !.model = Or(@, "qwen_image_edit_2511_fp8_lightning")])
  ELSE Ok([o EXCEPT !.model = Or(@, "z_image_turbo_bf16")])

\* lines 798-806
VideoOnlyOptions(o) ==
  IF ~Truthy(o.prompt) /\ ~o.estimateVideoCost /\ ~o.multiAngle
  THEN Fail(o, "Error: No prompt provided. Use --help for usage.")
  ELSE IF ~o.video /\ (Truthy(o.refAudio) \/ Truthy(o.refVideo)
                       \/ Truthy(o.videoWorkflow) \/ o.frames # 0)
  THEN Fail(o, "Error: Video-only options (--workflow/--frames/--ref-audio/--ref-video) require --video")
  ELSE Ok(o)

\* lines 808-842
ReferenceValidation(o) ==
  IF ~o.video THEN Ok(o)
  ELSE IF o.videoWorkflow = "t2v"
  THEN IF Truthy(o.refImage) \/ Truthy(o.refImageEnd) \/ Truthy(o.refAudio) \/ Truthy(o.refVideo)
       THEN Fail(o, "Error: t2v does not accept reference image/audio/video.")
       ELSE Ok(o)
  ELSE IF o.videoWorkflow = "i2v"
  THEN IF ~Truthy(o.refImage) /\ ~Truthy(o.refImageEnd)
       THEN Fail(o, "Error: i2v requires --ref and/or --ref-end.")
       ELSE IF Truthy(o.refAudio) \/ Truthy(o.refVideo)
       THEN Fail(o, "Error: i2v does not accept reference audio/video.")
       ELSE Ok(o)
  ELSE IF o.videoWorkflow = "s2v"
  THEN IF ~Truthy(o.refImage) \/ ~Truthy(o.refAudio)
       THEN Fail(o, "Error: s2v requires both --ref and --ref-audio.")
       ELSE IF Truthy(o.refVideo)
       THEN Fail(o, "Error: s2v does not accept reference video.")
       ELSE Ok(o)
  ELSE IF o.videoWorkflow \in {"animate-move", "animate-replace"}
  THEN IF ~Truthy(o.refImage) \/ ~Truthy(o.refVideo)
       THEN Fail(o, "Error: animate workflows require both --ref and --ref-video.")
       ELSE IF Truthy(o.refAudio)
       THEN Fail(o, "Error: animate workflows do not accept reference audio.")
       ELSE Ok(o)
  ELSE Ok(o)

\* line 846: the capacities getMaxContextImages of the client library may declare
Capacities == 0..3

\* the capacity documented for the models (SKILL.md: Qwen edit models take up to 3)
DocumentedCapacity(model) == IF Includes(model, "qwen_image_edit_2511") THEN 3 ELSE 0

\* lines 844-856, maxImages being the value of getMaxContextImages(options.model)
ContextCapacity(o, maxImages) ==
  IF Len(o.contextImages) > 0 /\ ~o.video
  THEN IF maxImages = 0
       THEN Fail(o, "Error: Model " \o o.model \o " does not support context images."
                    \o "\nTry: qwen_image_edit_2511_fp8 or qwen_image_edit_2511_fp8_lightning")
       ELSE IF Len(o.contextImages) > maxImages
       THEN Fail(o, "Error: Model " \o o.model \o " supports max " \o ToString(maxImages)
                    \o " context images, got " \o ToString(Len(o.contextImages)))
       ELSE Ok(o)
  ELSE Ok(o)

\* The strings the payload of computePromptHashSeed can hold, in a fixed
\* order: the code of a string is its position.
PayloadStrings ==
  <<"", "a cat", "a dog", "image", "t2v", "i2v", "s2v", "animate-move", "animate-replace",
    "image-to-video",
    "z_image_turbo_bf16", "qwen_image_edit_2511_fp8", "qwen_image_edit_2511_fp8_lightning",
    "wan_v2.2-14b-fp8_t2v_lightx2v", "wan_v2.2-14b-fp8_i2v_lightx2v",
    "wan_v2.2-14b-fp8_s2v_lightx2v", "wan_v2.2-14b-fp8_animate-move_lightx2v",
    "wan_v2.2-14b-fp8_animate-replace_lightx2v",
    "front", "dpmpp", "euler", "karras", "simple", "my_lora", "multiple_angles",
    "ref.jpg", "end.jpg", "speech.m4a", "motion.mp4", "subject.jpg", "second.jpg", "last.png",
    "true", "false", Null>>

StringCodeTable ==
  [str \in {PayloadStrings[i] : i \in 1..Len(PayloadStrings)} |-> IndexOf(PayloadStrings, str)]

StringCode(str) == StringCodeTable[str]

StringCodes(seq) == [i \in 1..Len(seq) |-> StringCode(seq[i])]

\* lines 71-95: the payload, serialised field by field as JSON.stringify
\* writes it (0 closes a list; steps 0 and guidance NoNumber are null).  The
\* fields no modelled option sets (elevation, distance, angleDescription,
\* outputFormat, tokenType) are the same in every payload and are left out.
PayloadOf(opts) ==
  <<StringCode(Or(opts.prompt, "")), StringCode(Or(opts.model, "")),
    StringCode(IF opts.video THEN opts.videoWorkflow ELSE "image"),
    opts.width, opts.height, StringCode(Or(opts.azimuth, "")),
    StringCode(Or(opts.sampler, "")), StringCode(Or(opts.scheduler, ""))>>
  \o StringCodes(opts.loras) \o <<0>>
  \o opts.loraStrengths \o <<0>>
  \o <<StringCode(Or(opts.refImage, "")), StringCode(Or(opts.refImageEnd, "")),
       StringCode(Or(opts.refAudio, "")), StringCode(Or(opts.refVideo, ""))>>
  \o StringCodes(opts.contextImages) \o <<0>>
  \o <<StringCode(opts.autoResizeVideoAssets), opts.steps, opts.guidance + 1>>

\* A digest of the serialised payload: 16 bits, mixing in every element in
\* order.  It stands for one half of the SHA-256 prefix the code reads.
RECURSIVE Digest16(_, _, _)
Digest16(codes, mult, h) ==
  IF codes = <<>> THEN h
  ELSE Digest16(Tail(codes), mult, (h * mult + Head(codes) + 1) % 65536)

\* lines 70-98: the first four bytes of the digest of the payload
computePromptHashSeed(opts) ==
  LET payload == PayloadOf(opts)
      hi == Digest16(payload, 31, 7)
      lo == Digest16(payload, 37, 11)
  IN <<hi \div 256, hi % 256, lo \div 256, lo % 256>>

\* lines 858-883 with 'random' where line 876 has 'prompt-hash'
ResolveSeed_DefaultRandom(o, cfg, env) ==
  LET o1 == IF o.lastSeed /\ env.lastRender # NoSeed
            THEN [o EXCEPT !.seed = env.lastRender]
            ELSE o
  IN IF ~o1.estimateVideoCost /\ o1.seed = NoSeed
     THEN LET strategy == Or(o1.seedStrategy, Or(cfg.seedStrategy, "random"))
              normalized == Or(normalizeSeedStrategy(strategy), "prompt-hash")
              o2 == [o1 EXCEPT !.seedStrategy = normalized]
          IN Ok([o2 EXCEPT !.seed = IF normalized = "random"
                                    THEN env.random
                                    ELSE computePromptHashSeed(o2)])
     ELSE Ok(o1)

\* lines 858-883; env is what the script reads from last-render.json and
\* from randomBytes
ResolveSeed(o, cfg, env) ==
  LET o1 == IF o.lastSeed /\ env.lastRender # NoSeed
            THEN [o EXCEPT !.seed = env.lastRender]
            ELSE o
  IN IF ~o1.estimateVideoCost /\ o1.seed = NoSeed
     THEN LET strategy == Or(o1.seedStrategy, Or(cfg.seedStrategy, "prompt-hash"))
              normalized == Or(normalizeSeedStrategy(strategy), "prompt-hash")
              o2 == [o1 EXCEPT !.seedStrategy = normalized]
          IN Ok([o2 EXCEPT !.seed = IF normalized = "random"
                                    THEN env.random
                                    ELSE computePromptHashSeed(o2)])
     ELSE Ok(o1)

\* the stages in script order, stopping at the first process.exit(1)
Then(r, Stage(_)) == IF r.err # "" THEN r ELSE Stage(r.o)

RECURSIVE ParseAll(_, _)
ParseAll(o, args) ==
  IF args = <<>> THEN o ELSE ParseAll(ParseArg(o, Head(args)), Tail(args))

RECURSIVE ParseAllCliSet(_, _)
ParseAllCliSet(cs, args) ==
  IF args = <<>> THEN cs ELSE ParseAllCliSet(ParseCliSet(cs, Head(args)), Tail(args))

\* the script up to the seed resolution
CompileOptions(args, cfg) ==
  LET cs == ParseAllCliSet(DefaultCliSet, args)
      applyConfig(o) == ApplyConfig(o, cs, cfg)
      multiAngleSetup(o) == MultiAngleSetup(o, cs)
      selectWorkflow(o) == VideoWorkflowSelection(o, cfg)
      contextCapacity(o) == ContextCapacity(o, DocumentedCapacity(o.model))
  IN Then(Then(Then(Then(Then(Then(Then(Then(Then(
       applyConfig(ParseAll(DefaultOptions, args)), SeedStrategyCheck),
       multiAngleSetup), OptionExclusivity), selectWorkflow), ResolveLastImage),
       ModelDefaults), VideoOnlyOptions), ReferenceValidation), contextCapacity)

(***************************************************************************)
(* State.                                                                  *)
(***************************************************************************)
VARIABLES
  options,        \* the options object
  cliSet,         \* which flags were given on the command line
  openclawConfig, \* the loaded plugin configuration
  argc,           \* arguments consumed by the parse loop
  cpc,            \* position of the top-level script
  maxImages,      \* what getMaxContextImages returned, NoNumber if it was not called
  stderr,         \* last message written to the error stream ("" if none)
  exitCode,       \* process exit status, NoNumber while the process runs
  pc,             \* position of main() (its current await)
  stdout,         \* payloads written to the output stream
  connects,       \* client.connect() calls
  disconnects,    \* client.disconnect() calls
  connected,      \* client.isConnected()
  listeners,      \* handlers registered on the client
  timer,          \* the timeout timer of the current orchestration
  promise,        \* state of the current completionPromise
  results,        \* results array of the current orchestration
  completed,      \* completed / completedJobs counter
  projectId,      \* projectId latched by runImageEditProjectWithEvents
  jobs,           \* job specifications submitted to the client, in order
  unitsLeft,      \* units of the current job the service has not reported yet
  foreignLeft,    \* events of other projects the client may still emit
  eventLog,       \* what the client reported for the current job, in order
  angleResults,   \* runMultiAngleFlow: angleResults
  videoFrames,    \* runMultiAngleFlow: videoFrames
  clipPaths,      \* runMultiAngleFlow: clipPaths
  files,          \* files written by downloadUrlToFile
  concatCalls,    \* invocations of buildConcatVideoFromClips, with their clips
  lastRenderWrites, \* calls of saveLastRender
  mainUrls,       \* main: the urls taken from results once the promise resolved
  ffmpeg          \* the ffmpeg binary: "ok", "missing" or "failing"

compileVars == <<options, cliSet, openclawConfig, argc, cpc, maxImages>>

runVars ==
  <<pc, stdout, connects, disconnects, connected, listeners, timer, promise,
    results, completed, projectId, jobs, unitsLeft, foreignLeft, eventLog, angleResults,
    videoFrames, clipPaths, files, concatCalls, lastRenderWrites, mainUrls, ffmpeg>>

vars == <<compileVars, stderr, exitCode, runVars>>

\* nothing of main() has run
RunFresh ==
  /\ stdout = <<>> /\ connects = 0 /\ disconnects = 0 /\ connected = FALSE
  /\ eventLog = <<>>
  /\ listeners = {} /\ timer = "none" /\ promise = "none" /\ results = <<>>
  /\ completed = 0 /\ projectId = 0 /\ jobs = <<>> /\ unitsLeft = {}
  /\ angleResults = <<>> /\ videoFrames = <<>>
  /\ clipPaths = <<>> /\ files = {} /\ concatCalls = <<>>
  /\ lastRenderWrites = 0 /\ mainUrls = <<>>

\* main() is not part of the compile specification
RunIdle == RunFresh /\ pc = "idle" /\ foreignLeft = 0 /\ ffmpeg = "ok"

(***************************************************************************)
(* SpecCompile: the top-level script up to the call of main().             *)
(***************************************************************************)
InitCompile ==
  /\ options = DefaultOptions
  /\ cliSet = DefaultCliSet
  /\ openclawConfig \in [defaultVideoWorkflow : ConfigWorkflows,
                         modelDefaults : {NoModelDefaults}, seedStrategy : {Null}]
  /\ argc = 0
  /\ cpc = "parse"
  /\ maxImages = NoNumber
  /\ stderr = ""
  /\ exitCode = NoNumber
  /\ RunIdle

\* lines 293-538: one iteration of the argument loop
ParseArgument ==
  /\ cpc = "parse" /\ argc < MaxArgs
  /\ \E arg \in Args :
       /\ options' = ParseArg(options, arg)
       /\ cliSet' = ParseCliSet(cliSet, arg)
  /\ argc' = argc + 1
  /\ UNCHANGED <<openclawConfig, cpc, maxImages, stderr, exitCode, runVars>>

\* a stage of the script: go on to `next`, or print the error and exit(1)
ScriptStage(here, r, next) ==
  /\ cpc = here
  /\ options' = r.o
  /\ IF r.err = ""
     THEN cpc' = next /\ UNCHANGED <<stderr, exitCode>>
     ELSE cpc' = "exit" /\ stderr' = r.err /\ exitCode' = 1
  /\ UNCHANGED <<cliSet, openclawConfig, argc, runVars>>

RunStage(here, r, next) == ScriptStage(here, r, next) /\ UNCHANGED maxImages

\* end of the argument loop, lines 540-577
LoadConfig ==
  RunStage("parse", Then(ApplyConfig(options, cliSet, openclawConfig), SeedStrategyCheck),
           "multiAngle")

CheckMultiAngle == RunStage("multiAngle", MultiAngleSetup(options, cliSet), "exclusive")

CheckExclusivity == RunStage("exclusive", OptionExclusivity(options), "workflow")

SelectWorkflow ==
  RunStage("workflow", VideoWorkflowSelection(options, openclawConfig), "lastImage")

UseLastImage == RunStage("lastImage", ResolveLastImage(options), "defaults")

ApplyModelDefaults == RunStage("defaults", ModelDefaults(options), "videoOnly")

CheckVideoOnly == RunStage("videoOnly", VideoOnlyOptions(options), "references")

CheckReferences == RunStage("references", ReferenceValidation(options), "capacity")

\* lines 844-856
CheckCapacity ==
  IF Len(options.contextImages) > 0 /\ ~options.video
  THEN \E m \in Capacities :
         /\ maxImages' = m
         /\ ScriptStage("capacity", ContextCapacity(options, m), "seed")
  ELSE RunStage("capacity", Ok(options), "seed")

\* lines 858-883
SeedResolution ==
  \E env \in SeedEnvs : RunStage("seed", ResolveSeed(options, openclawConfig, env), "compiled")

NextCompile ==
  \/ ParseArgument
  \/ LoadConfig
  \/ CheckMultiAngle
  \/ CheckExclusivity
  \/ SelectWorkflow
  \/ UseLastImage
  \/ ApplyModelDefaults
  \/ CheckVideoOnly
  \/ CheckReferences
  \/ CheckCapacity
  \/ SeedResolution

SpecCompile == InitCompile /\ [][NextCompile]_vars

(***************************************************************************)
(* Spec: one run of main() on compiled options.                            *)
(*                                                                         *)
(* The program state is handled as one record so that the code following   *)
(* an await can be written as a function of the state at the await: when   *)
(* an event handler settles the promise main() is waiting on, the          *)
(* continuation runs in the same step (a microtask, before any other       *)
(* event).                                                                 *)
(***************************************************************************)
NoProject == 0

ForeignProject == 0 - 1

MULTI_ANGLE_AZIMUTHS ==
  <<"front", "front-right", "right", "back-right", "back", "back-left", "left", "front-left">>

\* runMultiAngleFlow, lines 1096-1098; the sweep is cut to MaxSweep labels
Azimuths ==
  IF options.angles360
  THEN SubSeq(MULTI_ANGLE_AZIMUTHS, 1, MaxSweep)
  ELSE <<options.azimuth>>

Cur ==
  [pc |-> pc, exitCode |-> exitCode, stdout |-> stdout, stderr |-> stderr,
   connects |-> connects, disconnects |-> disconnects, connected |-> connected,
   eventLog |-> eventLog, listeners |-> listeners,
   timer |-> timer, promise |-> promise, results |-> results,
   completed |-> completed, projectId |-> projectId, jobs |-> jobs,
   unitsLeft |-> unitsLeft, angleResults |-> angleResults,
   videoFrames |-> videoFrames, clipPaths |-> clipPaths, files |-> files,
   concatCalls |-> concatCalls, lastRenderWrites |-> lastRenderWrites,
   urls |-> mainUrls]

Apply(s) ==
  /\ pc' = s.pc /\ exitCode' = s.exitCode /\ stdout' = s.stdout
  /\ stderr' = s.stderr /\ connects' = s.connects /\ disconnects' = s.disconnects
  /\ connected' = s.connected /\ eventLog' = s.eventLog
  /\ listeners' = s.listeners /\ timer' = s.timer /\ promise' = s.promise
  /\ results' = s.results /\ completed' = s.completed /\ projectId' = s.projectId
  /\ jobs' = s.jobs /\ unitsLeft' = s.unitsLeft /\ angleResults' = s.angleResults
  /\ videoFrames' = s.videoFrames /\ clipPaths' = s.clipPaths /\ files' = s.files
  /\ concatCalls' = s.concatCalls /\ lastRenderWrites' = s.lastRenderWrites
  /\ mainUrls' = s.urls

Payload(ok, urls, msg, angles) ==
  [success |-> ok, urls |-> urls, error |-> msg, angles |-> angles,
   errorCode |-> Null, hint |-> Null, errorDetails |-> Null]

HasUrl(r) == r.hasUrl

\* results.map(r => r.imageUrl).filter(Boolean)
UrlsOf(res) == SelectSeq(res, HasUrl)

RejectMessage(p) ==
  CASE p = "failed" -> "Job failed"
    [] p = "timeout" -> "Timeout"
    [] OTHER -> ""

\* main, lines 1729-1739: the catch block
Catch(s, msg) ==
  [s EXCEPT !.stdout = IF options.json
                       THEN Append(@, Payload(FALSE, <<>>, msg, <<>>))
                       ELSE @,
            !.stderr = IF options.json THEN @ ELSE msg,
            !.exitCode = 1,
            !.pc = "exited"]

\* console.error(msg); process.exit(1)
ExitWithError(s, msg) == [s EXCEPT !.stderr = msg, !.exitCode = 1, !.pc = "exited"]

\* a promise rejected while nothing awaits it: the runtime raises it as an
\* uncaught exception and the process ends
UnhandledRejection(s, msg) == [s EXCEPT !.stderr = msg, !.exitCode = 1, !.pc = "exited"]

\* main, lines 1741-1744: the finally block up to the awaited disconnect
Finally(s) ==
  IF s.connected
  THEN [s EXCEPT !.disconnects = @ + 1, !.pc = "disconnecting"]
  ELSE [s EXCEPT !.exitCode = 0, !.pc = "exited"]

\* a promise was rejected by a handler: s0 is the state before the handler
Rejected(s0, s, awaitingPc, crash) ==
  IF s0.promise # "pending" THEN s
  ELSE IF s0.pc = awaitingPc THEN Catch(s, RejectMessage(s.promise))
  ELSE IF crash THEN UnhandledRejection(s, RejectMessage(s.promise))
  ELSE s

ClearTimeout(t) == IF t = "armed" THEN "cleared" ELSE t

Settle(p, outcome) == IF p = "pending" THEN outcome ELSE p

(***************************************************************************)
(* main(): the single-job orchestration, lines 1412-1727.                  *)
(***************************************************************************)
MainListeners ==
  {[event |-> e, owner |-> 0] :
     e \in {"JOB_COMPLETED", "JOB_FAILED"}
           \cup (IF options.video THEN {"PROJECT_PROGRESS"} ELSE {})}

\* the project configuration handed to the client (steps 0 and guidance
\* NoNumber: the field is left out)
JobSpec(kind, label, startFrame, endFrame, model, steps, guidance) ==
  [kind |-> kind, label |-> label, startFrame |-> startFrame, endFrame |-> endFrame,
   model |-> model, steps |-> steps, guidance |-> guidance,
   width |-> options.width, height |-> options.height, seed |-> options.seed,
   frames |-> 0, duration |-> 0]        \* 0: the field is not set

\* lines 1465-1467 and 1509-1514
VideoJob ==
  LET modelDefaults == getModelDefaults(options.model, openclawConfig)
      projectConfig == JobSpec("video", "", options.refImage, options.refImageEnd,
                               options.model,
                               StepsOr(options.steps, modelDefaults.steps),
                               GuidanceOr(options.guidance, modelDefaults.guidance))
  IN IF options.frames # 0                       \* lines 1490-1494
     THEN [projectConfig EXCEPT !.frames = options.frames]
     ELSE [projectConfig EXCEPT !.duration = options.duration]

\* lines 1527-1541
EditJob ==
  LET modelDefaults == getModelDefaults(options.model, openclawConfig)
      lightning == Includes(options.model, "lightning")
  IN JobSpec("edit", "", options.contextImages[1], Null, options.model,
             StepsOr(options.steps, StepsOr(modelDefaults.steps, IF lightning THEN 4 ELSE 20)),
             GuidanceOr(options.guidance,
                        GuidanceOr(modelDefaults.guidance, IF lightning THEN 35 ELSE 75)))

\* lines 1568-1596
ImageJob ==
  LET modelDefaults == getModelDefaults(options.model, openclawConfig) IN
  JobSpec("image", "", Null, Null, options.model,
          StepsOr(options.steps, modelDefaults.steps),
          GuidanceOr(options.guidance, GuidanceOr(modelDefaults.guidance, 10)))

\* the angle job built with the last context image instead of the first
AngleJob_LastContextImage(azimuth) ==
  LET modelDefaults == getModelDefaults(options.model, openclawConfig)
      lightning == Includes(options.model, "lightning")
  IN JobSpec("edit", azimuth, options.contextImages[Len(options.contextImages)], Null,
             options.model,
             StepsOr(options.steps, StepsOr(modelDefaults.steps, IF lightning THEN 4 ELSE 20)),
             GuidanceOr(options.guidance,
                        GuidanceOr(modelDefaults.guidance, IF lightning THEN 10 ELSE 40)))

\* lines 1095, 1099-1101 and 1150-1161
AngleJob(azimuth) ==
  LET modelDefaults == getModelDefaults(options.model, openclawConfig)
      lightning == Includes(options.model, "lightning")
  IN JobSpec("edit", azimuth, options.contextImages[1], Null, options.model,
             StepsOr(options.steps, StepsOr(modelDefaults.steps, IF lightning THEN 4 ELSE 20)),
             GuidanceOr(options.guidance,
                        GuidanceOr(modelDefaults.guidance, IF lightning THEN 10 ELSE 40)))

\* Math.round(a / n) for a >= 0 and n > 0
Round(a, n) == (2 * a + n) \div (2 * n)

Max(a, b) == IF a >= b THEN a ELSE b

\* every segment job given the whole duration
SegmentJob_WholeDuration(startPath, endPath, segmentCount) ==
  LET videoModelId == VIDEO_WORKFLOW_DEFAULT_MODELS["i2v"]
      videoDefaults == getModelDefaults(videoModelId, openclawConfig)
      clipConfig == JobSpec("segment", "", startPath, endPath, videoModelId,
                            StepsOr(options.steps, videoDefaults.steps),
                            GuidanceOr(options.guidance, videoDefaults.guidance))
      segmentFrames == IF options.frames # 0
                       THEN Max(17, Round(options.frames, segmentCount)) ELSE 0
      segmentDuration == options.duration
  IN [clipConfig EXCEPT !.seed = NoSeed,
                        !.frames = segmentFrames,
                        !.duration = IF segmentFrames # 0 THEN 0 ELSE segmentDuration]

\* lines 1242-1253 and 1260-1284 (no --video-model, no configured videoModels)
SegmentJob(startPath, endPath, segmentCount) ==
  LET videoModelId == VIDEO_WORKFLOW_DEFAULT_MODELS["i2v"]
      videoDefaults == getModelDefaults(videoModelId, openclawConfig)
      clipConfig == JobSpec("segment", "", startPath, endPath, videoModelId,
                            StepsOr(options.steps, videoDefaults.steps),
                            GuidanceOr(options.guidance, videoDefaults.guidance))
      segmentFrames == IF options.frames # 0
                       THEN Max(17, Round(options.frames, segmentCount)) ELSE 0
      segmentDuration == IF options.frames # 0
                         THEN options.duration
                         ELSE Max(1, Round(options.duration, segmentCount))
  IN [clipConfig EXCEPT !.seed = NoSeed,   \* clipConfig is given no seed
                        !.frames = segmentFrames,
                        !.duration = IF segmentFrames # 0 THEN 0 ELSE segmentDuration]

\* lines 916-924: the write is attempted once per call, its failure is ignored
saveLastRender(s) == [s EXCEPT !.lastRenderWrites = @ + 1]

\* lines 1675-1727: the success output of main
PrintMain(s) ==
  Finally([s EXCEPT !.stdout =
             IF options.json
             THEN Append(@, Payload(TRUE, s.urls, "", <<>>))
             ELSE @ \o [i \in 1..Len(s.urls) |-> Payload(TRUE, <<s.urls[i]>>, "", <<>>)]])

\* lines 1608-1673
MainOutput(s) ==
  IF Len(s.results) > 0
  THEN LET s1 == saveLastRender([s EXCEPT !.urls = UrlsOf(s.results)]) IN
       IF Truthy(options.output) /\ Len(s1.urls) > 0
       THEN [s1 EXCEPT !.pc = "saving"]       \* await fetch(urls[0])
       ELSE PrintMain(s1)
  ELSE Catch(s, "No output generated - may have been filtered")

\* line 1606: await completionPromise
AwaitMain(s) ==
  CASE s.promise = "pending" -> [s EXCEPT !.pc = "awaiting"]
    [] s.promise = "resolved" -> MainOutput(s)
    [] OTHER -> Catch(s, RejectMessage(s.promise))

\* lines 1420-1436
MainOnCompleted(s, ev) ==
  LET s1 == [s EXCEPT !.results = Append(@, ev), !.completed = @ + 1]
      s2 == IF s1.completed >= options.count
            THEN [s1 EXCEPT !.timer = ClearTimeout(@), !.promise = Settle(@, "resolved")]
            ELSE s1
  IN IF s.pc = "awaiting" /\ s2.promise = "resolved" THEN MainOutput(s2) ELSE s2

\* lines 1438-1441
MainOnFailed(s, ev, crash) ==
  Rejected(s, [s EXCEPT !.timer = ClearTimeout(@), !.promise = Settle(@, "failed")],
           "awaiting", crash)

\* lines 1416-1418
MainOnTimeout(s, crash) ==
  Rejected(s, [s EXCEPT !.timer = "fired", !.promise = Settle(@, "timeout")],
           "awaiting", crash)

\* lines 1453-1603: the job specification is built and submitted
SubmitMain(s) ==
  [s EXCEPT !.jobs = Append(@, IF options.video THEN VideoJob
                               ELSE IF Len(options.contextImages) > 0 THEN EditJob
                               ELSE ImageJob),
            !.unitsLeft = 1..options.count,
            !.pc = "submitting"]

NeedsAssets ==
  IF options.video
  THEN Truthy(options.refImage) \/ Truthy(options.refImageEnd)
       \/ Truthy(options.refAudio) \/ Truthy(options.refVideo)
  ELSE Len(options.contextImages) > 0

\* lines 1412-1451: completionPromise, its timer and its listeners
StartMain(s) ==
  LET s1 == [s EXCEPT !.results = <<>>, !.completed = 0, !.promise = "pending",
                      !.timer = "armed", !.listeners = @ \cup MainListeners,
                      !.eventLog = <<>>]
  IN IF NeedsAssets THEN [s1 EXCEPT !.pc = "loading"] ELSE SubmitMain(s1)

(***************************************************************************)
(* runImageEditProjectWithEvents, lines 1032-1092, and runMultiAngleFlow,  *)
(* lines 1094-1340.                                                        *)
(***************************************************************************)
EditListeners(k) ==
  {[event |-> e, owner |-> k] : e \in {"JOB_COMPLETED", "JOB_FAILED"}}

AngleIndex(s) == Len(s.angleResults) + 1

\* lines 1069-1073
Cleanup(s) ==
  [s EXCEPT !.timer = ClearTimeout(@),
            !.listeners = @ \ EditListeners(AngleIndex(s))]

\* lines 1143-1181 and 1032-1084: the edit job of the next angle is submitted
StartEdit(s) ==
  [s EXCEPT !.results = <<>>, !.completed = 0, !.projectId = NoProject,
            !.promise = "pending", !.timer = "armed", !.eventLog = <<>>,
            !.listeners = @ \cup EditListeners(AngleIndex(s)),
            !.jobs = Append(@, AngleJob(Azimuths[AngleIndex(s)])),
            !.unitsLeft = 1..options.count,
            !.pc = "angleSubmitting"]

FrameFile(azimuth, i) == <<azimuth, i>>

ClipFile(i) == <<"segment", i>>

\* the segment loop pairing each frame with its successor, the last with itself
StartSegment_WithoutWrapAround(s) ==
  LET i == Len(s.clipPaths)
      n == Len(s.videoFrames)
  IN [s EXCEPT !.jobs = Append(@, SegmentJob(s.videoFrames[i + 1],
                                             s.videoFrames[IF i + 2 > n THEN n ELSE i + 2], n)),
               !.unitsLeft = {},
               !.eventLog = <<>>,
               !.pc = "segmentSubmitting"]

\* lines 1257-1288: the next segment job is submitted
StartSegment(s) ==
  LET i == Len(s.clipPaths)
      n == Len(s.videoFrames)
  IN [s EXCEPT !.jobs = Append(@, SegmentJob(s.videoFrames[i + 1],
                                             s.videoFrames[((i + 1) % n) + 1], n)),
               !.unitsLeft = {},
               !.eventLog = <<>>,
               !.pc = "segmentSubmitting"]

RECURSIVE AllUrls(_)
AllUrls(angles) ==
  IF angles = <<>> THEN <<>> ELSE Head(angles).urls \o AllUrls(Tail(angles))

\* lines 1303-1339
FlowOutput(s) ==
  LET allUrls == AllUrls(s.angleResults) IN
  Finally([saveLastRender(s) EXCEPT !.stdout =
             IF options.json
             THEN Append(@, Payload(TRUE, <<>>, "", s.angleResults))
             ELSE @ \o [i \in 1..Len(allUrls) |-> Payload(TRUE, <<allUrls[i]>>, "", <<>>)]])

\* lines 1298 and 1010-1030
Concat(s) ==
  IF ffmpeg = "missing"
  THEN ExitWithError(s, "Error: ffmpeg is required to assemble the 360 video. Install ffmpeg or set FFMPEG_PATH.")
  ELSE LET s1 == [s EXCEPT !.concatCalls = Append(@, s.clipPaths)] IN
       IF ffmpeg = "failing"
       THEN ExitWithError(s1, "Error: ffmpeg failed to concatenate 360 video clips.")
       ELSE FlowOutput(s1)

\* lines 1216-1256
AfterAngles(s) ==
  IF options.angles360Video
  THEN IF Len(s.videoFrames) = 0
       THEN ExitWithError(s, "Error: No local frames available to assemble 360 video.")
       ELSE StartSegment(s)
  ELSE FlowOutput(s)

\* lines 1206-1214 and the loop head
PushAngle(s) ==
  LET s1 == [s EXCEPT !.angleResults =
               Append(@, [azimuth |-> Azimuths[AngleIndex(s)], urls |-> UrlsOf(s.results)])]
  IN IF Len(s1.angleResults) < Len(Azimuths) THEN StartEdit(s1) ELSE AfterAngles(s1)

\* lines 1103-1115: outputConfig exists
OutputConfigured == options.angles360Video \/ Truthy(options.output)

\* lines 1189-1199: after the awaited orchestration returned
AfterAngle(s) ==
  IF OutputConfigured /\ Len(UrlsOf(s.results)) > 0
  THEN [s EXCEPT !.pc = "angleDownloading"]
  ELSE PushAngle(s)

\* the caller going on with the next angle whatever the promise settled as
AwaitEdit_ContinuesAfterFailure(s) ==
  CASE s.promise = "pending" -> [s EXCEPT !.pc = "angleAwaiting"]
    [] OTHER -> AfterAngle(s)

\* lines 1091 and 1181: the caller awaits the returned completionPromise
AwaitEdit(s) ==
  CASE s.promise = "pending" -> [s EXCEPT !.pc = "angleAwaiting"]
    [] s.promise = "resolved" -> AfterAngle(s)
    [] OTHER -> Catch(s, RejectMessage(s.promise))

\* lines 1044-1060
onCompleted(s, ev) ==
  IF s.projectId # NoProject /\ ev.projectId # s.projectId THEN s
  ELSE
  LET s1 == [s EXCEPT !.projectId = IF @ = NoProject THEN ev.projectId ELSE @,
                      !.results = Append(@, ev),
                      !.completed = @ + 1]
  IN IF s1.completed >= options.count
     THEN LET s2 == [Cleanup(s1) EXCEPT !.promise = Settle(@, "resolved")] IN
          IF s.pc = "angleAwaiting" THEN AfterAngle(s2) ELSE s2
     ELSE s1

\* lines 1062-1067
onFailed(s, ev, crash) ==
  IF s.projectId # NoProject /\ ev.projectId # s.projectId THEN s
  ELSE
  LET s1 == [s EXCEPT !.projectId = IF @ = NoProject THEN ev.projectId ELSE @]
  IN Rejected(s, [Cleanup(s1) EXCEPT !.promise = Settle(@, "failed")],
              "angleAwaiting", crash)

\* lines 1075-1078
onTimeout(s, crash) ==
  Rejected(s, [Cleanup([s EXCEPT !.timer = "fired"]) EXCEPT !.promise = Settle(@, "timeout")],
           "angleAwaiting", crash)

\* lines 1356-1451: after client.connect() resolved
AfterConnect(s) ==
  IF options.estimateVideoCost
  THEN IF StepsOr(options.steps, getModelDefaults(options.model, openclawConfig).steps) = 0
       THEN ExitWithError(s, "Error: --estimate-video-cost requires --steps (or modelDefaults for this model).")
       ELSE [s EXCEPT !.pc = "estimating"]
  ELSE IF options.multiAngle
  THEN [s EXCEPT !.pc = "contextLoading"]
  ELSE StartMain(s)

(***************************************************************************)
(* Initial states: the options of a command line the compiler accepts.     *)
(***************************************************************************)
Flag(f) == [flag |-> f, val |-> Null]

BaseCommandLines ==
  {<<Flag("prompt")>>,
   <<Flag("--video"), Flag("prompt")>>,
   <<Flag("--video"), Flag("--ref"), Flag("prompt")>>,
   <<Flag("--context"), Flag("prompt")>>,
   <<Flag("--multi-angle"), Flag("--context")>>,
   <<Flag("--video"), Flag("--estimate-video-cost")>>,
   <<Flag("--video"), Flag("--estimate-video-cost"), Flag("--steps")>>}

\* the sweeps are run with the default count (--angles-360-video accepts no other)
SweepCommandLines ==
  {<<Flag("--angles-360"), Flag("--context")>>,
   <<Flag("--angles-360"), Flag("--angles-360-video"), Flag("--context")>>}

RunCommandLines ==
  {base \o cnt \o js :
     base \in BaseCommandLines,
     cnt \in {<<>>} \cup {<<[flag |-> "--count", val |-> c]>> : c \in CountArgs},
     js \in {<<>>, <<Flag("--json")>>}}
  \cup {base \o js : base \in SweepCommandLines, js \in {<<>>, <<Flag("--json")>>}}

\* a configuration with a modelDefaults entry for every model the runs use
TableConfig ==
  [NoConfig EXCEPT !.modelDefaults =
     [models |-> {"z_image_turbo_bf16", "qwen_image_edit_2511_fp8_lightning",
                  "wan_v2.2-14b-fp8_t2v_lightx2v", "wan_v2.2-14b-fp8_i2v_lightx2v"},
      steps |-> 8, guidance |-> 30]]

\* command lines run with TableConfig, and with NoConfig as well
TableCommandLines ==
  {<<Flag("prompt")>>,
   <<Flag("prompt"), Flag("--steps"), Flag("--guidance")>>,
   <<Flag("--video"), Flag("prompt")>>,
   <<Flag("--context"), Flag("prompt")>>,
   <<Flag("--multi-angle"), Flag("--context")>>,
   <<Flag("--multi-angle"), Flag("--context"), Flag("--guidance")>>,
   <<Flag("--angles-360"), Flag("--angles-360-video"), Flag("--context")>>}

Sized(f, n) == [flag |-> f, val |-> n]

\* video command lines with an explicit --width and --height
SizedCommandLines ==
  {<<Flag("--video"), Sized("--width", "500"), Sized("--height", "512"), Flag("prompt")>>,
   <<Flag("--video"), Sized("--width", "512"), Sized("--height", "768"), Flag("prompt")>>,
   <<Flag("--video"), Sized("--workflow", "i2v"), Flag("--ref"),
     Sized("--width", "512"), Sized("--height", "512"), Flag("prompt")>>,
   <<Flag("--video"), Sized("--workflow", "i2v"), Flag("--ref-end"),
     Sized("--width", "512"), Sized("--height", "512"), Flag("prompt")>>}

\* command lines that give a seed or a seed strategy
SeedCommandLines ==
  {<<Flag("prompt"), Flag("--seed")>>,
   <<Flag("prompt"), Flag("--last-seed")>>,
   <<Flag("prompt"), Sized("--seed-strategy", "random")>>,
   <<Flag("prompt"), Sized("--seed-strategy", "prompt_hash")>>}

\* a sweep with two context images
ContextCommandLines ==
  {<<Flag("--angles-360"), Flag("--context"), Sized("--context", "second.jpg"),
     Flag("--json")>>}

\* a stitched sweep with a total duration below the number of segments
DurationCommandLines ==
  {<<Flag("--angles-360"), Flag("--angles-360-video"), Flag("--context"),
     Sized("--duration", "1")>>}

\* command lines that name an output file
OutputCommandLines ==
  {<<Flag("prompt"), Flag("--output")>>,
   <<Flag("prompt"), Flag("--output"), Flag("--json")>>}

\* a configuration that sets the seed strategy
SeedConfig == [NoConfig EXCEPT !.seedStrategy = "random"]

Runs ==
  {[args |-> cl, config |-> NoConfig] :
     cl \in RunCommandLines \cup TableCommandLines \cup SeedCommandLines
             \cup OutputCommandLines \cup ContextCommandLines
             \cup DurationCommandLines}
  \cup {[args |-> <<Flag("prompt")>>, config |-> SeedConfig]}
  \cup {[args |-> cl \o js, config |-> NoConfig] :
          cl \in SizedCommandLines, js \in {<<>>, <<Flag("--json")>>}}
  \cup {[args |-> cl, config |-> TableConfig] : cl \in TableCommandLines}

\* the runs the option compiler accepts, as main() finds them
CompiledRuns ==
  {[options |-> ResolveSeed(CompileOptions(run.args, run.config).o, run.config, env).o,
    cliSet |-> ParseAllCliSet(DefaultCliSet, run.args),
    config |-> run.config] :
     run \in {x \in Runs : CompileOptions(x.args, x.config).err = ""},
     env \in SeedEnvs}

Init ==
  /\ \E run \in CompiledRuns :
       /\ options = run.options
       /\ cliSet = run.cliSet
       /\ openclawConfig = run.config
       /\ maxImages = IF Len(run.options.contextImages) > 0 /\ ~run.options.video
                      THEN DocumentedCapacity(run.options.model)
                      ELSE NoNumber
  /\ argc = 0
  /\ cpc = "compiled"
  /\ stderr = ""
  /\ exitCode = NoNumber
  /\ RunFresh
  /\ pc = "start"
  /\ foreignLeft = MaxForeign
  /\ ffmpeg \in {"ok", "missing", "failing"}

Alive == pc \notin {"idle", "exited"}

\* an entry of eventLog: what the client reported, and whether the
\* completionPromise was still pending then
Logged(s, type, ev) ==
  [s EXCEPT !.eventLog = Append(@, [type |-> type, projectId |-> ev.projectId,
                                    jobIndex |-> ev.jobIndex, hasUrl |-> ev.hasUrl,
                                    pending |-> s.promise = "pending"])]

NoEvent == [projectId |-> NoProject, jobIndex |-> 0, hasUrl |-> FALSE]

Step(here, s) ==
  /\ pc = here
  /\ Apply(s)
  /\ UNCHANGED <<compileVars, foreignLeft, ffmpeg>>

\* lines 1342-1357: main() creates the client and calls connect()
CallMain == Step("start", [Cur EXCEPT !.connects = @ + 1, !.pc = "connecting"])

ConnectResolved == Step("connecting", AfterConnect([Cur EXCEPT !.connected = TRUE]))

ConnectRejected == Step("connecting", Catch(Cur, "connect failed"))

\* lines 1381-1401
EstimateResolved ==
  Step("estimating",
       Finally([Cur EXCEPT !.stdout = Append(@, Payload(TRUE, <<>>, "", <<>>))]))

EstimateRejected == Step("estimating", Catch(Cur, "estimate failed"))

\* lines 1461-1464 and 1524-1526: the reference assets are fetched
AssetsLoaded == Step("loading", SubmitMain(Cur))

AssetsFailed == Step("loading", Catch(Cur, "fetch failed"))

\* lines 1516, 1563, 1602: the submission call returns
SubmissionAcknowledged == Step("submitting", AwaitMain(Cur))

SubmissionRejected ==
  /\ unitsLeft = 1..options.count
  /\ Step("submitting",
          Catch(Logged([Cur EXCEPT !.unitsLeft = {}], "rejected", NoEvent), "submission failed"))

\* line 1095
ContextLoaded == Step("contextLoading", StartEdit(Cur))

ContextFailed == Step("contextLoading", Catch(Cur, "fetch failed"))

\* the caller going on with the next angle as soon as the submission returned
EditSubmissionAcknowledged_WithoutAwait ==
  \E hasId \in BOOLEAN :
    Step("angleSubmitting",
         AfterAngle([Cur EXCEPT !.projectId = IF hasId THEN Len(jobs) ELSE @]))

\* lines 1083-1091
EditSubmissionAcknowledged ==
  \E hasId \in BOOLEAN :
    Step("angleSubmitting",
         AwaitEdit([Cur EXCEPT !.projectId = IF hasId THEN Len(jobs) ELSE @]))

EditSubmissionRejected ==
  /\ unitsLeft = 1..options.count
  /\ Step("angleSubmitting",
          Catch(Cleanup(Logged([Cur EXCEPT !.unitsLeft = {}], "rejected", NoEvent)),
                "submission failed"))

\* lines 1192-1204: the files of one angle are downloaded
AngleDownloaded ==
  LET urls == UrlsOf(results)
      az == Azimuths[AngleIndex(Cur)]
  IN Step("angleDownloading",
          PushAngle([Cur EXCEPT
            !.files = @ \cup {FrameFile(az, i) : i \in 1..Len(urls)},
            !.videoFrames = IF options.angles360Video
                            THEN Append(@, FrameFile(az, 1)) ELSE @]))

AngleDownloadFailed ==
  LET urls == UrlsOf(results)
      az == Azimuths[AngleIndex(Cur)]
  IN \E done \in 0..(Len(urls) - 1) :
       Step("angleDownloading",
            Catch([Cur EXCEPT
                     !.files = @ \cup {FrameFile(az, i) : i \in 1..done},
                     !.videoFrames = IF options.angles360Video /\ done > 0
                                     THEN Append(@, FrameFile(az, 1)) ELSE @],
                  "Failed to download image"))

\* lines 1288-1292: createVideoProject (waitForCompletion) returns
SegmentResolved ==
  \E hasUrl \in BOOLEAN :
    Step("segmentSubmitting",
         IF hasUrl
         THEN [Cur EXCEPT !.pc = "segmentDownloading"]
         ELSE Catch(Logged(Cur, "nourl", NoEvent), "No video URL returned for 360 segment."))

SegmentRejected ==
  Step("segmentSubmitting", Catch(Logged(Cur, "rejected", NoEvent), "Job failed"))

\* lines 1293-1298
SegmentDownloaded ==
  LET clip == ClipFile(Len(clipPaths) + 1)
      s1 == [Cur EXCEPT !.files = @ \cup {clip}, !.clipPaths = Append(@, clip)]
  IN Step("segmentDownloading",
          IF Len(s1.clipPaths) < Len(s1.videoFrames) THEN StartSegment(s1) ELSE Concat(s1))

SegmentDownloadFailed == Step("segmentDownloading", Catch(Cur, "Failed to download image"))

\* lines 1663-1672: the first url is fetched and written to options.output
OutputSaved == Step("saving", PrintMain([Cur EXCEPT !.files = @ \cup {options.output}]))

OutputSaveFailed == Step("saving", Catch(Cur, "fetch failed"))

(***************************************************************************)
(* The client's event stream and the timer.                                *)
(***************************************************************************)
Registered(event, owner) == [event |-> event, owner |-> owner] \in listeners

CompletedEvents ==
  {[projectId |-> Len(jobs), jobIndex |-> i, hasUrl |-> u] : i \in unitsLeft, u \in BOOLEAN}
  \cup (IF foreignLeft > 0
        THEN {[projectId |-> ForeignProject, jobIndex |-> 0, hasUrl |-> u] : u \in BOOLEAN}
        ELSE {})

FailedEvents ==
  {[projectId |-> Len(jobs), jobIndex |-> i, hasUrl |-> FALSE] : i \in unitsLeft}
  \cup (IF foreignLeft > 0
        THEN {[projectId |-> ForeignProject, jobIndex |-> 0, hasUrl |-> FALSE]}
        ELSE {})

Emitted(ev) ==
  /\ foreignLeft' = IF ev.projectId = ForeignProject THEN foreignLeft - 1 ELSE foreignLeft
  /\ UNCHANGED <<compileVars, ffmpeg>>

Reported(s, type, ev) == Logged([s EXCEPT !.unitsLeft = @ \ {ev.jobIndex}], type, ev)

\* the client emits JOB_COMPLETED
JobCompletedEvent ==
  /\ Alive
  /\ \E ev \in CompletedEvents :
       /\ \/ /\ Registered("JOB_COMPLETED", 0)
             /\ Apply(MainOnCompleted(Reported(Cur, "completed", ev), ev))
          \/ /\ Registered("JOB_COMPLETED", AngleIndex(Cur))
             /\ Apply(onCompleted(Reported(Cur, "completed", ev), ev))
       /\ Emitted(ev)

\* the client emits JOB_FAILED
JobFailedEvent ==
  /\ Alive
  /\ \E ev \in FailedEvents, crash \in BOOLEAN :
       /\ \/ /\ Registered("JOB_FAILED", 0)
             /\ Apply(MainOnFailed(Reported(Cur, "failed", ev), ev, crash))
          \/ /\ Registered("JOB_FAILED", AngleIndex(Cur))
             /\ Apply(onFailed(Reported(Cur, "failed", ev), ev, crash))
       /\ Emitted(ev)

\* the timeout timer fires
TimerFires ==
  /\ Alive
  /\ timer = "armed"
  /\ \E crash \in BOOLEAN :
       LET s == Logged(Cur, "timeout", NoEvent) IN
       Apply(IF options.multiAngle THEN onTimeout(s, crash) ELSE MainOnTimeout(s, crash))
  /\ UNCHANGED <<compileVars, foreignLeft, ffmpeg>>

\* lines 1743-1745: disconnect() returned, process.exit(0)
DisconnectSettled ==
  Step("disconnecting", [Cur EXCEPT !.connected = FALSE, !.exitCode = 0, !.pc = "exited"])

Next ==
  \/ CallMain
  \/ ConnectResolved
  \/ ConnectRejected
  \/ EstimateResolved
  \/ EstimateRejected
  \/ AssetsLoaded
  \/ AssetsFailed
  \/ SubmissionAcknowledged
  \/ SubmissionRejected
  \/ ContextLoaded
  \/ ContextFailed
  \/ EditSubmissionAcknowledged
  \/ EditSubmissionRejected
  \/ AngleDownloaded
  \/ AngleDownloadFailed
  \/ SegmentResolved
  \/ SegmentRejected
  \/ SegmentDownloaded
  \/ SegmentDownloadFailed
  \/ OutputSaved
  \/ OutputSaveFailed
  \/ JobCompletedEvent
  \/ JobFailedEvent
  \/ TimerFires
  \/ DisconnectSettled

Spec == Init /\ [][Next]_vars

(***************************************************************************)
(* Properties of the orchestration.                                        *)
(***************************************************************************)
Outcome(e) == [projectId |-> e.projectId, jobIndex |-> e.jobIndex, hasUrl |-> e.hasUrl]

\* the completion events of the submitted job, in the order the client emitted them
OwnCompletions ==
  LET IsOwn(e) == e.type = "completed" /\ e.projectId = Len(jobs)
      own == SelectSeq(eventLog, IsOwn)
  IN [i \in 1..Len(own) |-> Outcome(own[i])]

TimedOut == \E i \in 1..Len(eventLog) : eventLog[i].type = "timeout"

Settled == promise \in {"resolved", "failed", "timeout"}

\* C1: when the N completion events of the submitted job have arrived and the
\* timer has not fired, the orchestration is settled successfully and its
\* outcomes are exactly those N events, in the order of receipt.
C1_CompletionsSettleSuccessfully ==
  (Len(jobs) > 0 /\ Len(OwnCompletions) = options.count /\ ~TimedOut)
    => (promise = "resolved" /\ results = OwnCompletions)

\* C2: no completion event of another project is ever among the outcomes,
\* neither in main's orchestration nor in a per-angle one.
C2_Isolation ==
  \A i \in 1..Len(results) : results[i].projectId # ForeignProject

\* C3: a failure event of the submitted job that arrives while the
\* orchestration is unsettled settles it as failed, and no success payload is
\* written.
C3_FailureEventSettlesAsFailure ==
  \A i \in 1..Len(eventLog) :
    (eventLog[i].type = "failed" /\ eventLog[i].projectId = Len(jobs) /\ eventLog[i].pending)
      => (promise = "failed" /\ \A j \in 1..Len(stdout) : ~stdout[j].success)

\* a submitted job the program is waiting for
JobAwaited ==
  \/ pc \in {"awaiting", "angleAwaiting", "segmentSubmitting"}
  \/ pc \in {"submitting", "angleSubmitting"} /\ promise = "pending"

\* C4: every job the program waits for is covered by an armed timeout timer,
\* so that the wait ends as TIMEOUT when nothing arrives.
C4_AwaitedJobHasTimer == JobAwaited => timer = "armed"

\* C5: once an orchestration has settled, none of its listeners remains
\* registered on the client and its timer is not armed.
C5_SettledReleasesListeners ==
  (Alive /\ Settled) => (listeners = {} /\ timer # "armed")

\* C7: when the process has ended after connecting, the connection has been
\* released, by exactly one disconnect of the one connection opened.
C7_ConnectionReleasedOnce ==
  (pc = "exited" /\ connects = 1 /\ (connected \/ disconnects > 0))
    => (~connected /\ disconnects = 1)

\* a job of the compound workflow failed: its orchestration settled as failed
\* (failure event) or timed out, its submission was rejected, or its clip has
\* no URL.  Whether a failure event settles the orchestration is C3's matter.
FlowJobFailed ==
  /\ options.multiAngle
  /\ \/ promise \in {"failed", "timeout"}
     \/ \E i \in 1..Len(eventLog) : eventLog[i].type \in {"rejected", "nourl"}

\* C6: once an angle job or a segment job of a compound workflow has failed,
\* no further job is submitted, the concatenation step is never invoked, the
\* process ends with exit status 1 without a success payload, and the files
\* downloaded before stay in place.
C6_CompoundAbort ==
  /\ [](FlowJobFailed =>
          /\ concatCalls = <<>>
          /\ \A j \in 1..Len(stdout) : ~stdout[j].success
          /\ pc = "exited" => exitCode = 1)
  /\ [][FlowJobFailed =>
          /\ jobs' = jobs
          /\ concatCalls' = concatCalls
          /\ files \subseteq files'
          /\ pc # "exited" => (pc' = "exited" /\ exitCode' = 1)]_vars

\* the second segment job of a stitched 360 video failed after the first
\* clip was downloaded
C6_SecondSegmentFailed ==
  /\ options.angles360Video /\ Len(clipPaths) = 1 /\ ClipFile(1) \in files
  /\ Len(jobs) = Len(Azimuths) + 2
  /\ FlowJobFailed /\ pc = "exited" /\ exitCode = 1

(***************************************************************************)
(* Properties of the option compiler (SpecCompile).                        *)
(***************************************************************************)
\* C8: the workflow stage of a video request ends with the workflow given by
\* the precedence explicit flag, model id, reference assets, configured
\* default, t2v; it ends in an error only when an explicit workflow
\* contradicts the workflow inferred from the model (an explicit value that
\* is no workflow at all is left aside).
C8_WorkflowPrecedence ==
  [][(cpc = "workflow" /\ options.video /\ cpc' # cpc) =>
       LET explicit == IF cliSet.workflow THEN options.videoWorkflow ELSE Null
           fromFlag == normalizeVideoWorkflow(explicit)
           fromModel == inferVideoWorkflowFromModel(options.model)
           fromAssets == inferVideoWorkflowFromAssets(options)
           fromConfig == normalizeVideoWorkflow(openclawConfig.defaultVideoWorkflow)
           claimed == Or(fromFlag, Or(fromModel, Or(fromAssets, Or(fromConfig, "t2v"))))
       IN IF Truthy(explicit) /\ ~Truthy(fromFlag) THEN TRUE
          ELSE IF Truthy(fromFlag) /\ Truthy(fromModel) /\ fromFlag # fromModel
          THEN cpc' = "exit"
          ELSE /\ cpc' = "lastImage"
               /\ normalizeVideoWorkflow(options'.videoWorkflow) = claimed]_vars

\* C9: a compiled video request satisfies the reference-role table of its
\* workflow, and a request rejected by the reference validation ends with
\* exit status 1 and a message naming its workflow, nothing being submitted.
C9_ReferenceRoles ==
  LET o == options
      w == normalizeVideoWorkflow(o.videoWorkflow)
      start == Truthy(o.refImage)
      end == Truthy(o.refImageEnd)
      audio == Truthy(o.refAudio)
      driving == Truthy(o.refVideo)
      named == CASE stderr \in {"Error: t2v does not accept reference image/audio/video."}
                      -> {"t2v"}
                 [] stderr \in {"Error: i2v requires --ref and/or --ref-end.",
                                "Error: i2v does not accept reference audio/video."}
                      -> {"i2v"}
                 [] stderr \in {"Error: s2v requires both --ref and --ref-audio.",
                                "Error: s2v does not accept reference video."}
                      -> {"s2v"}
                 [] stderr \in {"Error: animate workflows require both --ref and --ref-video.",
                                "Error: animate workflows do not accept reference audio."}
                      -> {"animate-move", "animate-replace"}
                 [] OTHER -> {}
  IN /\ (cpc = "compiled" /\ o.video) =>
          CASE w = "t2v" -> ~start /\ ~end /\ ~audio /\ ~driving
            [] w = "i2v" -> (start \/ end) /\ ~audio /\ ~driving
            [] w = "s2v" -> start /\ audio /\ ~driving
            [] w \in {"animate-move", "animate-replace"} -> start /\ driving /\ ~audio
            [] OTHER -> FALSE
     /\ (cpc = "exit" /\ named # {}) =>
          (o.videoWorkflow \in named /\ exitCode = 1 /\ jobs = <<>>)

\* C10: an accepted request satisfies the exclusivity rules (an option is
\* carried when it has a value the code takes as set), and the script ends
\* with exit status 1 whenever it rejects a command line.
C10_Exclusivity ==
  LET o == options IN
  /\ cpc = "compiled" =>
       /\ o.video =>
            (Len(o.loras) = 0 /\ ~Truthy(o.sampler) /\ ~Truthy(o.scheduler))
       /\ ~o.video =>
            /\ o.frames = 0
            /\ o.autoResizeVideoAssets = Null
            /\ ~Truthy(o.refAudio) /\ ~Truthy(o.refVideo)
            /\ ~Truthy(o.videoWorkflow)
       /\ o.estimateVideoCost => o.video
  /\ cpc = "exit" => (exitCode = 1 /\ stderr # "")

\* a video command line with a sampler was rejected
C10_RejectedSamplerWithVideo ==
  /\ cpc = "exit" /\ exitCode = 1
  /\ options.video /\ Truthy(options.sampler)
  /\ stderr = "Error: --sampler/--scheduler are image-only options."

(***************************************************************************)
(* Properties of the job specifications.                                   *)
(***************************************************************************)
\* C11: in every submitted job specification the steps and the guidance are
\* the explicit --steps / --guidance value when one was given, and otherwise
\* the modelDefaults entry of the job's model when the table has one (the
\* heuristic is left to the cases where neither exists).
C11_StepsGuidancePrecedence ==
  \A i \in 1..Len(jobs) :
    LET job == jobs[i]
        entry == getModelDefaults(job.model, openclawConfig)
    IN /\ cliSet.steps => job.steps = options.steps
       /\ (~cliSet.steps /\ entry.steps # 0) => job.steps = entry.steps
       /\ cliSet.guidance => job.guidance = options.guidance
       /\ (~cliSet.guidance /\ entry.guidance # NoNumber) => job.guidance = entry.guidance

\* text search in the messages the script prints
Contains(msg, sub) ==
  \E i \in 1..(Len(msg) - Len(sub) + 1) : SubSeq(msg, i, i + Len(sub) - 1) = sub

ValidationFailed == exitCode = 1 /\ Contains(stderr, "Error: --")

\* C13: a validation failure (a cost estimate requested without a step count
\* included) is detected before the client connection is opened and before any
\* job submission: a run that fails validation has performed no client operation.
C13_ValidationBeforeConnect ==
  ValidationFailed => connects = 0 /\ ~connected /\ jobs = <<>> /\ listeners = {}

\* the error codes of the taxonomy
ErrorCodes ==
  {"VALIDATION_ERROR", "INVALID_VIDEO_SIZE", "RESOURCE_NOT_FOUND", "JOB_FAILED",
   "TIMEOUT", "TOOL_UNAVAILABLE"}

IsErrorPayload(p) == ~p.success

IsSuccessPayload(p) == p.success

\* C14: in JSON mode a run that ended with a non-zero exit status (validation
\* error, job failure, timeout, tool unavailable) has written exactly one payload
\* with success = false, that payload carries an errorCode of the taxonomy, and
\* the run has written no success payload.
C14_JsonErrorPayload ==
  (options.json /\ pc = "exited" /\ exitCode # 0)
    => /\ Len(SelectSeq(stdout, IsErrorPayload)) = 1
       /\ \A i \in 1..Len(stdout) :
            ~stdout[i].success => stdout[i].errorCode \in ErrorCodes
       /\ SelectSeq(stdout, IsSuccessPayload) = <<>>

\* a job submitted through createVideoProject
IsVideoJob(job) == job.kind \in {"video", "segment"}

\* n rounded down to a multiple of 16, and never below 16
Floor16(n) == IF n < 16 THEN 16 ELSE (n \div 16) * 16

\* C15: every video job submitted to the client has a width and a height that
\* are multiples of 16; an explicit size of a request without reference is
\* rounded down per dimension to a multiple of 16 (500x512 becomes 496x512),
\* and a size that is a multiple of 16 already is passed through unchanged.
C15_VideoSizeMultipleOf16 ==
  \A i \in 1..Len(jobs) :
    IsVideoJob(jobs[i])
      => /\ jobs[i].width % 16 = 0
         /\ jobs[i].height % 16 = 0
         /\ (cliSet.width /\ cliSet.height /\ options.videoWorkflow = "t2v")
              => /\ jobs[i].width = Floor16(options.width)
                 /\ jobs[i].height = Floor16(options.height)

\* the run has written the error payload of a rejected video size
SizePayloadWritten ==
  \E i \in 1..Len(stdout) :
    /\ ~stdout[i].success
    /\ stdout[i].errorCode = "INVALID_VIDEO_SIZE"

\* C16: a video request whose width or height is not divisible by 16 fails: no
\* video job is submitted, the exit status is 1, and in JSON mode the payload has
\* success = false, errorCode INVALID_VIDEO_SIZE and an error text that mentions
\* 'divisible by 16'.
C16_IndivisibleSizeFails ==
  (options.video /\ (options.width % 16 # 0 \/ options.height % 16 # 0))
    => /\ \A i \in 1..Len(jobs) : ~IsVideoJob(jobs[i])
       /\ pc = "exited"
            => /\ exitCode = 1
               /\ options.json
                    => /\ SizePayloadWritten
                       /\ \A i \in 1..Len(stdout) :
                            ~stdout[i].success => Contains(stdout[i].error, "divisible by 16")

\* the intrinsic size of the reference images the runs use (the 1170x1200
\* screenshot of the tests)
ReferenceSize == [width |-> 1170, height |-> 1200]

\* w x h has the aspect ratio of the reference (39:40, as 624x640 has; the
\* 512x512 of the tests is off by 2.5 percent and is the size they expect rejected)
MatchesReference(w, h) == w * ReferenceSize.height = h * ReferenceSize.width

\* the reference role of an image-to-video request: the start frame if there
\* is one, else the end frame
ReferenceRole == IF Truthy(options.refImage) THEN "refImage" ELSE "refImageEnd"

\* C17: an image-to-video request whose explicit width x height is a multiple
\* of 16 but does not match the aspect ratio of its reference frame is rejected:
\* no job is submitted, the exit status is 1, the payload of JSON mode has
\* errorCode INVALID_VIDEO_SIZE, names the reference role that triggered the
\* mismatch and carries a hint with a corrected --width/--height pair.
C17_AspectMismatchRejected ==
  (/\ options.video /\ options.videoWorkflow = "i2v"
   /\ cliSet.width /\ cliSet.height
   /\ options.width % 16 = 0 /\ options.height % 16 = 0
   /\ ~MatchesReference(options.width, options.height))
    => /\ jobs = <<>>
       /\ pc = "exited"
            => /\ exitCode = 1
               /\ options.json
                    => /\ SizePayloadWritten
                       /\ \A i \in 1..Len(stdout) :
                            ~stdout[i].success
                              => /\ stdout[i].errorDetails = ReferenceRole
                                 /\ Contains(stdout[i].hint, "--width ")
                                 /\ Contains(stdout[i].hint, " --height ")

\* neither the command line nor the configuration gives a seed or a strategy
NoSeedGiven ==
  /\ ~cliSet.seed /\ ~cliSet.seedStrategy /\ ~options.lastSeed
  /\ ~Truthy(openclawConfig.seedStrategy)

\* the seed a second run on the inputs of the current run derives, when the
\* last render and the random source of that run are env
SeedOfRerun(env) ==
  ResolveSeed([options EXCEPT !.seed = NoSeed, !.seedStrategy = Null],
              openclawConfig, env).o.seed

Variants ==
  {[o |-> [options EXCEPT !.prompt = "a dog"], cfg |-> openclawConfig],
   [o |-> [options EXCEPT !.width = @ + 16], cfg |-> openclawConfig],
   [o |-> [options EXCEPT !.height = @ + 16], cfg |-> openclawConfig],
   [o |-> [options EXCEPT !.sampler = IF @ = "euler" THEN "dpmpp" ELSE "euler"],
    cfg |-> openclawConfig],
   [o |-> [options EXCEPT !.steps = @ + 1], cfg |-> openclawConfig],
   [o |-> options, cfg |-> NoConfig],
   [o |-> options, cfg |-> TableConfig]}

\* the step count and the guidance the image or video job of request v is
\* submitted with (0 and NoNumber: none is passed)
StepsUsed(v) == StepsOr(v.o.steps, getModelDefaults(v.o.model, v.cfg).steps)

GuidanceUsed(v) == GuidanceOr(v.o.guidance, getModelDefaults(v.o.model, v.cfg).guidance)

\* request v differs from the current request in a field that affects the outcome
DiffersFromCurrent(v) ==
  \/ v.o.prompt # options.prompt
  \/ v.o.width # options.width
  \/ v.o.height # options.height
  \/ v.o.sampler # options.sampler
  \/ StepsUsed(v) # StepsUsed([o |-> options, cfg |-> openclawConfig])
  \/ GuidanceUsed(v) # GuidanceUsed([o |-> options, cfg |-> openclawConfig])

\* C19: seed sensitivity: under the prompt-hash strategy a request that
\* differs from the submitted one in a field that affects the outcome (prompt,
\* width, height, sampler, the steps or the guidance actually used for the job)
\* derives a seed different from the seed of the submitted job.
C19_SeedSensitivity ==
  [][(/\ options.seedStrategy = "prompt-hash" /\ ~cliSet.seed /\ ~options.lastSeed
      /\ Len(jobs') > Len(jobs)
      /\ jobs'[Len(jobs')].kind \in {"image", "video"})
       => LET job == jobs'[Len(jobs')]
          IN /\ job.steps = StepsUsed([o |-> options, cfg |-> openclawConfig])
             /\ \A v \in Variants :
                  DiffersFromCurrent(v) => computePromptHashSeed(v.o) # job.seed]_vars

\* C20: when --last-image is given together with --video and a previous
\* render has an image, the resolution of --last-image makes the last image
\* the start frame of the video request, also when no --workflow, model or
\* other reference is given (a start frame given with --ref is kept).
C20_LastImageIsStartFrame ==
  [][(/\ cpc = "lastImage" /\ cpc' # cpc
      /\ options.video /\ Truthy(options.lastImagePath) /\ ~Truthy(options.refImage))
       => options'.refImage = options.lastImagePath]_vars

\* C21: the last-render state is written only at the end of a successful run:
\* a run that exits with a non-zero status has not written it, and a run that
\* generated something and exits with status 0 has written it exactly once.
C21_LastRenderOnlyOnSuccess ==
  pc = "exited" =>
     /\ exitCode # 0 => lastRenderWrites = 0
     /\ (exitCode = 0 /\ ~options.estimateVideoCost) => lastRenderWrites = 1

\* the jobs of one kind among the submitted ones
JobsOfKind(js, kind) == LET Is(j) == j.kind = kind IN SelectSeq(js, Is)

\* the orchestration of the current angle job has settled successfully, or
\* settles in this step: the last completion it waits for arrives while the
\* caller awaits it
AngleSettles ==
  \/ promise = "resolved"
  \/ pc = "angleAwaiting" /\ promise = "pending" /\ completed + 1 >= options.count

\* C22: the jobs of a compound workflow are submitted one at a time: angle job
\* k+1 only when angle job k has settled successfully, the first segment job
\* only when every angle job has settled, and segment job k+1 only when the
\* clip of segment job k has been received.
C22_OneJobAtATime ==
  [][(options.multiAngle /\ jobs' # jobs) =>
       /\ Len(jobs') = Len(jobs) + 1
       /\ SubSeq(jobs', 1, Len(jobs)) = jobs
       /\ LET job == jobs'[Len(jobs')]
              edits == Len(JobsOfKind(jobs, "edit"))
              segments == Len(JobsOfKind(jobs, "segment"))
          IN IF job.kind = "edit"
             THEN /\ segments = 0
                  /\ Len(angleResults') = edits
                  /\ edits > 0 => AngleSettles
             ELSE /\ edits = Len(Azimuths)
                  /\ Len(angleResults') = edits
                  /\ Len(clipPaths') = segments
                  /\ IF segments = 0 THEN AngleSettles ELSE pc = "segmentDownloading"]_vars

\* the second segment job of a sweep has been submitted
C22_SecondSegmentSubmitted ==
  /\ options.angles360Video
  /\ Len(JobsOfKind(jobs, "edit")) = Len(Azimuths)
  /\ Len(JobsOfKind(jobs, "segment")) = 2

\* C23: with the angle frames f1..fn, segment job i goes from fi to the next
\* frame and the last one from fn back to f1; no more than n segment jobs are
\* submitted; the concatenation is invoked at most once, only when all n clips
\* are there, with the n clip files in segment order, and a stitched run that
\* ends successfully has invoked it.
C23_SegmentsWrapAround ==
  LET segments == JobsOfKind(jobs, "segment")
      n == Len(videoFrames)
  IN /\ Len(segments) <= n
     /\ \A i \in 1..Len(segments) :
          /\ segments[i].startFrame = videoFrames[i]
          /\ segments[i].endFrame = videoFrames[IF i = n THEN 1 ELSE i + 1]
     /\ Len(concatCalls) <= 1
     /\ concatCalls # <<>> =>
          /\ Len(segments) = n
          /\ concatCalls[1] = [i \in 1..n |-> ClipFile(i)]
          /\ \A i \in 1..n : ClipFile(i) \in files
     /\ (options.angles360Video /\ pc = "exited" /\ exitCode = 0) => Len(concatCalls) = 1

\* a sweep of several frames has been stitched
C23_SweepStitched ==
  /\ Len(videoFrames) = Len(Azimuths)
  /\ Len(videoFrames) > 2
  /\ Len(concatCalls) = 1
  /\ pc = "exited" /\ exitCode = 0

\* C24: segment jobs are submitted only when every angle of the sweep has
\* produced a local frame file, so that a stitched run has as many segment jobs
\* as angles.
C24_FramePerAngle ==
  /\ JobsOfKind(jobs, "segment") # <<>> => Len(videoFrames) = Len(Azimuths)
  /\ concatCalls # <<>> => Len(JobsOfKind(jobs, "segment")) = Len(Azimuths)

\* C25: a multi-angle run submits one edit job per azimuth label, in the order
\* of the labels (the one label given in single-angle mode, the fixed table of
\* eight in sweep mode), every job with the first context image; the result
\* entries follow the same order, and a successful run reports exactly one
\* entry per label.
C25_OneEditJobPerAzimuth ==
  LET edits == JobsOfKind(jobs, "edit") IN
  options.multiAngle =>
    /\ MULTI_ANGLE_AZIMUTHS =
         <<"front", "front-right", "right", "back-right", "back", "back-left", "left",
           "front-left">>
    /\ Len(Azimuths) = IF options.angles360 THEN MaxSweep ELSE 1
    /\ Len(edits) <= Len(Azimuths)
    /\ Len(angleResults) <= Len(edits)
    /\ \A i \in 1..Len(edits) :
         /\ edits[i].label =
              (IF options.angles360 THEN MULTI_ANGLE_AZIMUTHS[i] ELSE options.azimuth)
         /\ edits[i].startFrame = options.contextImages[1]
    /\ \A i \in 1..Len(angleResults) : angleResults[i].azimuth = edits[i].label
    /\ (pc = "exited" /\ exitCode = 0) =>
         /\ Len(edits) = Len(Azimuths)
         /\ Len(angleResults) = Len(Azimuths)
         /\ options.json => /\ Len(stdout) = 1
                            /\ stdout[1].success
                            /\ stdout[1].angles = angleResults

\* a sweep with two context images has ended successfully
C25_SweepReported ==
  /\ options.angles360 /\ options.json
  /\ Len(options.contextImages) = 2
  /\ pc = "exited" /\ exitCode = 0
  /\ Len(angleResults) = Len(Azimuths)

\* C26: the segment jobs of a run all carry the same budget: with a frame
\* override F the integer nearest to F / n and at least 17 frames, without one
\* the integer nearest to D / n and at least 1 second, n being the number of
\* segments and D the total duration; a job carries frames or a duration,
\* never both.
C26_SegmentBudget ==
  LET segments == JobsOfKind(jobs, "segment")
      n == Len(videoFrames)
      Nearest(q, total, least) ==
        /\ q >= least
        /\ q > least => (2 * n * q - n <= 2 * total /\ 2 * total < 2 * n * q + n)
        /\ q = least => 2 * total < 2 * n * least + n
  IN \A i \in 1..Len(segments) :
       /\ segments[i].frames = segments[1].frames
       /\ segments[i].duration = segments[1].duration
       /\ (segments[i].frames = 0) # (segments[i].duration = 0)
       /\ IF options.frames # 0
          THEN Nearest(segments[i].frames, options.frames, 17)
          ELSE Nearest(segments[i].duration, options.duration, 1)

\* the default duration of 5 seconds has been divided among three segments
C26_DurationDivided ==
  LET segments == JobsOfKind(jobs, "segment") IN
  /\ options.duration = 5
  /\ Len(segments) = 3
  /\ segments[3].duration = 2

\* C27: settlement is terminal: once the orchestration has settled, no later
\* event changes how it settled, and its outcome set neither gains nor loses
\* an entry.
C27_SettledIsTerminal ==
  [][(Settled /\ promise' \in {"resolved", "failed", "timeout"})
       => (promise' = promise /\ results' = results)]_vars

\* C28: within one per-angle orchestration the correlation id never changes
\* once it is set, and every outcome of a successfully settled orchestration
\* carries that id.
C28_CorrelationIdStable ==
  /\ [][(options.multiAngle /\ projectId # NoProject /\ jobs' = jobs)
          => projectId' = projectId]_vars
  /\ []((options.multiAngle /\ promise = "resolved")
          => \A i \in 1..Len(results) : results[i].projectId = projectId)

\* the run ended in the error path of main with this message
ReportedError(msg) ==
  IF options.json
  THEN Len(stdout) = 1 /\ ~stdout[1].success /\ stdout[1].error = msg
  ELSE stderr = msg

\* the submission call or an asset load of the run was itself rejected
CallRejected ==
  \/ \E i \in 1..Len(eventLog) : eventLog[i].type \in {"rejected", "nourl"}
  \/ ReportedError("fetch failed")
  \/ ReportedError("submission failed")

\* C29: how a settled orchestration is reported does not depend on when its
\* events arrived: a failure or a timeout is reported through the error path
\* (the JSON error payload, or the message on the error stream) and a
\* resolved single-job orchestration through the success output, whether it
\* settled before or after the submission call returned.
C29_EventOrderIndependent ==
  (pc = "exited" /\ ~CallRejected) =>
     /\ promise \in {"failed", "timeout"} =>
          /\ exitCode = 1
          /\ ReportedError(RejectMessage(promise))
     /\ (promise = "resolved" /\ ~options.multiAngle /\ ~Truthy(options.output)) =>
          /\ exitCode = 0
          /\ Len(stdout) > 0 \/ mainUrls = <<>>
          /\ \A i \in 1..Len(stdout) : stdout[i].success

\* C30: a run reported as successful delivers at least one artifact URL: no
\* success payload of a generation has an empty urls list, no angle entry of a
\* multi-angle result has one, and a generation run does not end with status 0
\* without having printed a result.
C30_SuccessHasUrl ==
  ~options.estimateVideoCost =>
    /\ \A i \in 1..Len(stdout) :
         stdout[i].success =>
           /\ stdout[i].angles = <<>> => stdout[i].urls # <<>>
           /\ \A a \in 1..Len(stdout[i].angles) : stdout[i].angles[a].urls # <<>>
    /\ (pc = "exited" /\ exitCode = 0) => stdout # <<>>

====
